---- MODULE Spec2Model ----
(***************************************************************************)
(* ChatScrollManager (leptos-app/src/chat_scroll_manager.rs): the windowed *)
(* pagination / virtual-scroll controller of the chat view, together with  *)
(* the collaborators it drives: the LiveQuery handle `messages`, the       *)
(* scroll container of the DOM and the NotificationManager's active room.  *)
(*                                                                         *)
(* Pixels are integers.  Client heights are multiples of 4, so that the    *)
(* 0.75 factors of get_thresholds stay integral.  A message is identified  *)
(* by its timestamp; the store holds the messages 1..store_size.           *)
(***************************************************************************)
EXTENDS Integers, Sequences, FiniteSets, TLC

\* ---------------------------------------------------------------- bounds
MaxMsgs == 3      \* the store never holds more messages than this
MaxTasks == 2     \* spawned load_more tasks that may wait to run
MaxRejects == 1   \* rewrites a faulty store rejects
MaxGap == 60      \* largest bottom gap should_auto_scroll is asked about
MaxWin == 3       \* longest window get_continuation_anchor is asked about
MaxPos == 3       \* largest offset_top and step_back in such a window
MaxHeight == 50   \* largest client height compute_limit is asked about
MaxPad == 20      \* largest padding-top and padding-bottom there

\* ------------------------------------------------------------- constants
RowPx == 74               \* height of a rendered message row (min_row_px)
DefaultLimit == 100       \* limit without a bound container
DefaultMinBuffer == 150   \* thresholds without a bound container
DefaultStepBack == 240

None == "None"
RoomId == "room"
OtherRoom == "other"      \* the room the user may select next
Rooms == {RoomId, OtherRoom}
Containers == {"c1"}            \* the container the rendering layer mounts
Elements == {"c1", "c2"}        \* the elements a caller can pass to bind_container
Heights == {1, 2}               \* the offset_height of an element there
Modes == {"Live", "Backward", "Forward"}
Kinds == {"scroll", "wheel", "touchstart"}

\* Viewport geometries the layout may take (client height, paddings).
Geometries ==
    { [client_height |-> 48, padding_top |-> 0,  padding_bottom |-> 0] }

\* Geometries of a container that leaves its content no room: collapsed
\* or hidden (client height 0, with or without computed paddings), or all
\* padding.
HiddenGeometries ==
    { [client_height |-> 0,  padding_top |-> 0, padding_bottom |-> 0],
      [client_height |-> 0,  padding_top |-> 8, padding_bottom |-> 8],
      [client_height |-> 16, padding_top |-> 8, padding_bottom |-> 8] }


VARIABLES
    \* Inner (chat_scroll_manager.rs:42-77)
    mode,                   \* "Live" | "Backward" | "Forward"
    loading,                \* None | "Forward" | "Backward"
    metrics,                \* ScrollMetrics
    current_limit,
    current_direction,      \* "ASC" | "DESC"
    last_continuation_key,  \* None | the key string of the last load
    last_scroll_top,
    user_scrolling,
    initialized,
    container,              \* None | a member of Containers
    closures,               \* Kinds -> BOOLEAN: scroll/wheel/touch_closure is Some
    \* LiveQuery<MessageView>
    selection,              \* the predicate the handle was last given
    applied,                \* the predicate the handle runs
    messages,               \* contents of the handle, in query order
    store_size,             \* the room holds the messages 1..store_size
    rejects_left,           \* rewrites the store will still reject
    node_ref,               \* chat.rs: the element in messages_container_ref, or None
    bind_effect_pending,    \* chat.rs: the effect that binds the container is due
    layout_effect_subscribed, \* chat.rs: the after_layout effect tracks this manager's messages
    \* executor
    tasks,                  \* spawned load_more futures, oldest first
    \* DOM
    listeners,              \* Containers -> (Kinds -> number of attached listeners)
    rendered,               \* the message rows of the DOM, top to bottom
    geom,                   \* geometry of the scroll container
    scroll_top,
    pending_scroll,         \* causes of the scroll event waiting for dispatch
    raf_pending,            \* a requestAnimationFrame callback is scheduled
    \* rendering layer / NotificationManager
    after_layout_pending,
    active_room,            \* NotificationManager: active_room_id
    unread_counts,          \* NotificationManager: Rooms -> unread messages (0: no entry)
    room_queries,           \* NotificationManager: Rooms -> <<>>, or <<n>> for a query
                            \* that has delivered n changesets
    destroyed,
    \* history
    ev                      \* the handler that ran last and what it did

ctrlVars == <<mode, loading, last_continuation_key, current_limit,
              current_direction, selection, active_room>>
bindVars == <<container, closures, listeners>>
viewVars == <<node_ref, bind_effect_pending, layout_effect_subscribed>>
notifyVars == <<unread_counts, room_queries>>
scrollVars == <<scroll_top, pending_scroll, raf_pending>>
vars == <<mode, loading, metrics, current_limit, current_direction,
          last_continuation_key, last_scroll_top, user_scrolling, initialized,
          container, closures, selection, applied, messages, store_size,
          rejects_left, node_ref, bind_effect_pending,
          layout_effect_subscribed, tasks,
          listeners, rendered, geom, scroll_top, pending_scroll, raf_pending,
          after_layout_pending, active_room, unread_counts, room_queries,
          destroyed, ev>>

\* ------------------------------------------------------------- helpers
Min(a, b) == IF a < b THEN a ELSE b
Max(a, b) == IF a > b THEN a ELSE b
Clamp(x, lo, hi) == Max(lo, Min(x, hi))
Reverse(s) == [i \in 1..Len(s) |-> s[Len(s) + 1 - i]]
IndexOf(s, x) == IF \E i \in 1..Len(s) : s[i] = x
                 THEN CHOOSE i \in 1..Len(s) : s[i] = x
                 ELSE 0

\* ------------------------------------------------- LiveQuery and store
LiveSelection(limit) ==
    [op |-> "none", bound |-> 0, order |-> "DESC", limit |-> limit]

PageSelection(op, timestamp, order, limit) ==
    [op |-> op, bound |-> timestamp, order |-> order, limit |-> limit]

\* The rows of the store a predicate selects, in its order, cut at its limit.
Eval(sel, n) ==
    LET lo == IF sel.op = ">=" THEN Max(sel.bound, 1) ELSE 1
        hi == IF sel.op = "<=" THEN Min(sel.bound, n) ELSE n
        k  == Min(Max(hi - lo + 1, 0), sel.limit)
    IN  IF sel.order = "DESC" THEN [i \in 1..k |-> hi + 1 - i]
                              ELSE [i \in 1..k |-> lo + i - 1]

\* update_selection hands the handle a new predicate; its contents follow
\* later (QueryResolve).
UpdateSelection(old, new) == new

\* The Result of update_selection, which the callers drop: the handle runs
\* the new predicate if the store accepted it and keeps its own otherwise.
Adopted(old, new, ok) == IF ok THEN new ELSE old

\* The outcomes update_selection can have: Ok, or Err from a store that
\* still rejects rewrites.
Outcomes == IF rejects_left > 0 THEN BOOLEAN ELSE {TRUE}

Rejected(ok) == IF ok THEN 0 ELSE 1

\* Whether an Err of update_selection reaches the caller or the log: both
\* call sites bind the Result to `_` and go on.
Surfaced(ok) == FALSE

\* ---------------------------------------------------------------- layout
ScrollHeight(g, raw) ==
    Max(g.client_height, Len(raw) * RowPx + g.padding_top + g.padding_bottom)

MaxScrollTop(g, raw) == ScrollHeight(g, raw) - g.client_height

\* The i-th row of the DOM, counted from the top.
OffsetTop(i) == (i - 1) * RowPx
OffsetHeight(i) == RowPx

\* ------------------------------------------------------ pure operations
Items(m, raw) == IF m # "Forward" THEN Reverse(raw) ELSE raw

\* Mutant: the order of the query is not looked at.
AtEarliest_AnyOrder(raw, limit, direction) == Len(raw) < limit

AtEarliest(raw, limit, direction) ==
    direction = "DESC" /\ Len(raw) < limit

\* Mutant: a full page counts as the newest edge too.
AtLatest_Inclusive(m, raw, limit, direction) ==
    m = "Live" \/ (direction = "ASC" /\ Len(raw) <= limit)

\* Mutant: only Live counts as the newest edge.
AtLatest_LiveOnly(m, raw, limit, direction) == m = "Live"

AtLatest(m, raw, limit, direction) ==
    m = "Live" \/ (direction = "ASC" /\ Len(raw) < limit)

\* Mutant: a gap of exactly 50 still scrolls.
ShouldAutoScroll_Inclusive == mode = "Live" /\ metrics.bottom_gap <= 50

ShouldAutoScroll == mode = "Live" /\ metrics.bottom_gap < 50

\* Mutant: the quotient is truncated, not rounded up.
ComputeLimitOf_Floor(c, g) ==
    IF c = None THEN DefaultLimit
    ELSE LET content_height == g.client_height - g.padding_top - g.padding_bottom
             query_height_px == content_height * 3
         IN  IF query_height_px <= 0 THEN 0
             ELSE query_height_px \div RowPx

\* ceil(x / 74) as usize: a negative quotient saturates to 0.
ComputeLimitOf(c, g) ==
    IF c = None THEN DefaultLimit
    ELSE LET content_height == g.client_height - g.padding_top - g.padding_bottom
             query_height_px == content_height * 3
         IN  IF query_height_px <= 0 THEN 0
             ELSE (query_height_px + RowPx - 1) \div RowPx

ComputeLimit == ComputeLimitOf(container, geom)

GetThresholds ==
    IF container = None THEN <<DefaultMinBuffer, DefaultStepBack>>
    ELSE <<(3 * geom.client_height) \div 4, (3 * geom.client_height) \div 4>>

MetricsNow ==
    [top_gap      |-> scroll_top,
     bottom_gap   |-> ScrollHeight(geom, messages) - scroll_top - geom.client_height,
     min_buffer   |-> GetThresholds[1],
     step_back    |-> GetThresholds[2],
     result_count |-> Len(messages)]

UpdateMetrics ==
    metrics' = IF container = None THEN metrics ELSE MetricsNow

\* First index, scanning message_list from i in steps of d, whose element
\* is in ok; 0 when the scan leaves the list, -1 (None) when query_selector
\* finds no element for a scanned message.
RECURSIVE Scan(_, _, _, _, _)
Scan(i, d, n, ok, present) ==
    IF i < 1 \/ i > n THEN 0
    ELSE IF i \notin present THEN -1
    ELSE IF i \in ok THEN i
    ELSE Scan(i + d, d, n, ok, present)

\* The two branches of get_continuation_anchor over a list of n >= 1
\* messages: present holds the indices whose element query_selector finds,
\* top[i] and height[i] are offset_top and offset_height of the element of
\* message i.  The result is an index in the list, 0 for None.
AnchorAt_PastEnd(direction, n, present, top, height, step_back) ==
    LET bottom(i) == top[i] + height[i]
    IN  IF direction = "Backward"
        THEN IF n \notin present THEN 0
             ELSE LET target_pos == bottom(n) - step_back
                      ok == {i \in present : bottom(i) <= target_pos}
                      found == Scan(n, -1, n, ok, present)
                  IN  IF found > 0 THEN found
                      ELSE IF found < 0 \/ 1 \notin present THEN 0
                      ELSE 0
        ELSE IF 1 \notin present THEN 0
             ELSE LET target_pos == top[1] + step_back
                      ok == {i \in present : top[i] >= target_pos}
                      found == Scan(1, 1, n, ok, present)
                  IN  IF found > 0 THEN found
                      ELSE IF found < 0 \/ n \notin present THEN 0
                      ELSE n + 1

AnchorAt_Strict(direction, n, present, top, height, step_back) ==
    LET bottom(i) == top[i] + height[i]
    IN  IF direction = "Backward"
        THEN IF n \notin present THEN 0
             ELSE LET target_pos == bottom(n) - step_back
                      ok == {i \in present : bottom(i) < target_pos}
                      found == Scan(n, -1, n, ok, present)
                  IN  IF found > 0 THEN found
                      ELSE IF found < 0 \/ 1 \notin present THEN 0
                      ELSE 1
        ELSE IF 1 \notin present THEN 0
             ELSE LET target_pos == top[1] + step_back
                      ok == {i \in present : top[i] > target_pos}
                      found == Scan(1, 1, n, ok, present)
                  IN  IF found > 0 THEN found
                      ELSE IF found < 0 \/ n \notin present THEN 0
                      ELSE n

AnchorAt(direction, n, present, top, height, step_back) ==
    LET bottom(i) == top[i] + height[i]
    IN  IF direction = "Backward"
        THEN IF n \notin present THEN 0
             ELSE LET target_pos == bottom(n) - step_back
                      ok == {i \in present : bottom(i) <= target_pos}
                      found == Scan(n, -1, n, ok, present)
                  IN  IF found > 0 THEN found
                      ELSE IF found < 0 \/ 1 \notin present THEN 0
                      ELSE 1
        ELSE IF 1 \notin present THEN 0
             ELSE LET target_pos == top[1] + step_back
                      ok == {i \in present : top[i] >= target_pos}
                      found == Scan(1, 1, n, ok, present)
                  IN  IF found > 0 THEN found
                      ELSE IF found < 0 \/ n \notin present THEN 0
                      ELSE n

\* Index in message_list of the continuation anchor, 0 for None.  The
\* elements are looked up in the DOM by message id; rows holds the DOM.
GetContinuationAnchorIn(direction, message_list, rows, bound, step_back) ==
    LET n == Len(message_list)
        row(i) == IndexOf(rows, message_list[i])
        present == {i \in 1..n : row(i) # 0}
    IN  IF ~bound \/ n = 0 THEN 0
        ELSE AnchorAt(direction, n, present,
                      [i \in 1..n |-> OffsetTop(row(i))],
                      [i \in 1..n |-> OffsetHeight(row(i))], step_back)

GetContinuationAnchor(direction, message_list) ==
    GetContinuationAnchorIn(direction, message_list, rendered,
                            container # None, GetThresholds[2])

\* offset_to_parent(el).y, 0 when the element has no parent any more.
OffsetToParentY(timestamp, rows) ==
    LET i == IndexOf(rows, timestamp)
    IN  IF i = 0 THEN 0 ELSE OffsetTop(i)

\* format!("{:?}-{}", direction, timestamp)
ContinuationKey(direction, timestamp) == direction \o "-" \o ToString(timestamp)


\* ------------------------------------------------------------------ Init
ZeroMetrics ==
    [top_gap |-> 0, bottom_gap |-> 0, min_buffer |-> 0, step_back |-> 0,
     result_count |-> 0]

ManagerIn_NotActive(m, mt) ==
    /\ mode = m
    /\ loading = None
    /\ metrics = mt
    /\ current_limit = DefaultLimit
    /\ current_direction = "DESC"
    /\ last_continuation_key = None
    /\ last_scroll_top = 0
    /\ user_scrolling = FALSE
    /\ initialized = FALSE
    /\ container = None
    /\ closures = [k \in Kinds |-> FALSE]
    /\ selection = LiveSelection(DefaultLimit)
    /\ applied = LiveSelection(DefaultLimit)
    /\ messages = << >>
    /\ store_size = MaxMsgs - 1
    /\ tasks = << >>
    /\ listeners = [c \in Elements |-> [k \in Kinds |-> 0]]
    /\ rendered = << >>
    /\ scroll_top = 0
    /\ pending_scroll = {}
    /\ raf_pending = FALSE
    /\ after_layout_pending = FALSE
    /\ active_room = None
    /\ destroyed = FALSE

\* A manager in mode m with the metrics mt, and nothing else done to it.
ManagerIn(m, mt) ==
    /\ mode = m
    /\ loading = None
    /\ metrics = mt
    /\ current_limit = DefaultLimit
    /\ current_direction = "DESC"
    /\ last_continuation_key = None
    /\ last_scroll_top = 0
    /\ user_scrolling = FALSE
    /\ initialized = FALSE
    /\ container = None
    /\ closures = [k \in Kinds |-> FALSE]
    /\ selection = LiveSelection(DefaultLimit)
    /\ applied = LiveSelection(DefaultLimit)
    /\ messages = << >>
    /\ store_size = MaxMsgs - 1
    /\ tasks = << >>
    /\ listeners = [c \in Elements |-> [k \in Kinds |-> 0]]
    /\ rendered = << >>
    /\ scroll_top = 0
    /\ pending_scroll = {}
    /\ raf_pending = FALSE
    /\ after_layout_pending = FALSE
    /\ active_room = RoomId
    /\ destroyed = FALSE

\* ChatScrollManager::new
NewManager ==
    /\ ManagerIn("Live", ZeroMetrics)
    /\ geom \in Geometries
    /\ ev = [op |-> "new"]

\* The rendering layer is left out: any caller binds any element, and
\* after_layout is scheduled whenever the number of rows changes.
NoView ==
    /\ node_ref = None
    /\ bind_effect_pending = FALSE
    /\ layout_effect_subscribed = TRUE

\* No room query delivers a changeset: no room has an unread count, and
\* mark_as_read, which set_active_room(Some(room)) calls, has nothing to remove.
QuietNotifier ==
    /\ unread_counts = [r \in Rooms |-> 0]
    /\ room_queries = [r \in Rooms |-> <<>>]

\* A manager on a store that accepts every rewrite.
Init == NewManager /\ rejects_left = 0 /\ NoView /\ QuietNotifier

\* A manager on a store that rejects some of the rewrites.
InitFaulty == NewManager /\ rejects_left = MaxRejects /\ NoView /\ QuietNotifier

\* ------------------------------------------------- bodies of the methods
\* Every pending task has now seen a set_live_mode call since it was spawned.
MarkLive(ts) == [i \in 1..Len(ts) |-> [ts[i] EXCEPT !.live_since = TRUE]]

\* Mutant: every call widens the recorded limit by another page.
SetLiveModeBody_Accumulate ==
    /\ mode' = "Live"
    /\ last_continuation_key' = None
    /\ loading' = None
    /\ current_limit' = current_limit + ComputeLimit
    /\ current_direction' = "DESC"
    /\ selection' = UpdateSelection(selection,
                         LiveSelection(current_limit + ComputeLimit))
    /\ active_room' = RoomId

\* Mutant: the notification manager is not told.
SetLiveModeBody_NoNotify ==
    /\ mode' = "Live"
    /\ last_continuation_key' = None
    /\ loading' = None
    /\ current_limit' = ComputeLimit
    /\ current_direction' = "DESC"
    /\ selection' = UpdateSelection(selection, LiveSelection(ComputeLimit))
    /\ active_room' = active_room

\* Mutant: the continuation key survives the return to Live.
SetLiveModeBody_KeepKey ==
    /\ mode' = "Live"
    /\ last_continuation_key' = last_continuation_key
    /\ loading' = None
    /\ current_limit' = ComputeLimit
    /\ current_direction' = "DESC"
    /\ selection' = UpdateSelection(selection, LiveSelection(ComputeLimit))
    /\ active_room' = RoomId

\* set_live_mode: constrains ctrlVars.
SetLiveModeBody ==
    /\ mode' = "Live"
    /\ last_continuation_key' = None
    /\ loading' = None
    /\ current_limit' = ComputeLimit
    /\ current_direction' = "DESC"
    /\ selection' = UpdateSelection(selection, LiveSelection(ComputeLimit))
    /\ active_room' = RoomId

\* Mutant: scroll_to commands nothing.
ScrollTo_Never(target) ==
    UNCHANGED scrollVars

\* scroll_to: constrains scrollVars.
ScrollTo(target) ==
    IF container = None \/ target = scroll_top
    THEN UNCHANGED scrollVars
    ELSE /\ scroll_top' = Clamp(target, 0, MaxScrollTop(geom, messages))
         /\ pending_scroll' = IF scroll_top' # scroll_top
                              THEN pending_scroll \cup {"prog"}
                              ELSE pending_scroll
         /\ raf_pending' = TRUE

ScrollToBottom ==
    IF container = None THEN UNCHANGED scrollVars
    ELSE ScrollTo(ScrollHeight(geom, messages))

\* Mutant: the continuation key is never compared.
LoadMoreOutcome_NoDedup(direction) ==
    LET message_list == Items(mode, messages)
        a == GetContinuationAnchor(direction, message_list)
    IN  IF a = 0 THEN "no_anchor" ELSE "started"

\* Mutant: any stored key suppresses the load.
LoadMoreOutcome_AnyKey(direction) ==
    LET message_list == Items(mode, messages)
        a == GetContinuationAnchor(direction, message_list)
    IN  IF a = 0 THEN "no_anchor"
        ELSE IF last_continuation_key # None THEN "dedup"
        ELSE "started"

\* What load_more(direction) does in the current state.
LoadMoreOutcome(direction) ==
    LET message_list == Items(mode, messages)
        a == GetContinuationAnchor(direction, message_list)
    IN  IF a = 0 THEN "no_anchor"
        ELSE IF last_continuation_key = ContinuationKey(direction, message_list[a])
        THEN "dedup"
        ELSE "started"

loadVars == <<loading, mode, active_room, last_continuation_key, tasks>>

LoadMore_AlwaysBackward(direction) ==
    LET message_list == Items(mode, messages)
        a == GetContinuationAnchor(direction, message_list)
        new_mode == "Backward"
    IN  IF LoadMoreOutcome(direction) # "started"
        THEN UNCHANGED loadVars
        ELSE /\ Len(tasks) < MaxTasks
             /\ loading' = direction
             /\ mode' = new_mode
             /\ active_room' = IF new_mode # "Live" THEN None ELSE active_room
             /\ last_continuation_key' = ContinuationKey(direction, message_list[a])
             /\ tasks' = Append(tasks,
                    [direction  |-> direction,
                     timestamp  |-> message_list[a],
                     limit      |-> ComputeLimit,
                     y_before   |-> OffsetToParentY(message_list[a], rendered),
                     live_since |-> FALSE])

LoadMore_ModeFirst(direction) ==
    LET message_list == Items(mode, messages)
        a == GetContinuationAnchor(direction, message_list)
        new_mode == IF direction = "Backward" THEN "Backward" ELSE "Forward"
    IN  IF LoadMoreOutcome(direction) # "started"
        THEN /\ mode' = new_mode
             /\ UNCHANGED <<loading, active_room, last_continuation_key, tasks>>
        ELSE /\ Len(tasks) < MaxTasks
             /\ loading' = direction
             /\ mode' = new_mode
             /\ active_room' = IF new_mode # "Live" THEN None ELSE active_room
             /\ last_continuation_key' = ContinuationKey(direction, message_list[a])
             /\ tasks' = Append(tasks,
                    [direction  |-> direction,
                     timestamp  |-> message_list[a],
                     limit      |-> ComputeLimit,
                     y_before   |-> OffsetToParentY(message_list[a], rendered),
                     live_since |-> FALSE])

LoadMore_KeepsActiveRoom(direction) ==
    LET message_list == Items(mode, messages)
        a == GetContinuationAnchor(direction, message_list)
        new_mode == IF direction = "Backward" THEN "Backward" ELSE "Forward"
    IN  IF LoadMoreOutcome(direction) # "started"
        THEN UNCHANGED loadVars
        ELSE /\ Len(tasks) < MaxTasks
             /\ loading' = direction
             /\ mode' = new_mode
             /\ active_room' = active_room
             /\ last_continuation_key' = ContinuationKey(direction, message_list[a])
             /\ tasks' = Append(tasks,
                    [direction  |-> direction,
                     timestamp  |-> message_list[a],
                     limit      |-> ComputeLimit,
                     y_before   |-> OffsetToParentY(message_list[a], rendered),
                     live_since |-> FALSE])

\* load_more up to and including spawn_local: constrains loadVars.
LoadMore(direction) ==
    LET message_list == Items(mode, messages)
        a == GetContinuationAnchor(direction, message_list)
        new_mode == IF direction = "Backward" THEN "Backward" ELSE "Forward"
    IN  IF LoadMoreOutcome(direction) # "started"
        THEN UNCHANGED loadVars
        ELSE /\ Len(tasks) < MaxTasks
             /\ loading' = direction
             /\ mode' = new_mode
             /\ active_room' = IF new_mode # "Live" THEN None ELSE active_room
             /\ last_continuation_key' = ContinuationKey(direction, message_list[a])
             /\ tasks' = Append(tasks,
                    [direction  |-> direction,
                     timestamp  |-> message_list[a],
                     limit      |-> ComputeLimit,
                     y_before   |-> OffsetToParentY(message_list[a], rendered),
                     live_since |-> FALSE])

\* The branch on_scroll takes for a user-initiated scroll event.
ScrollTrigger(scroll_delta) ==
    LET min_buffer == GetThresholds[1]
        bottom_gap == ScrollHeight(geom, messages) - scroll_top - geom.client_height
    IN  IF Len(Items(mode, messages)) = 0 THEN None
        ELSE IF /\ scroll_delta < 0
                /\ scroll_top < min_buffer
                /\ ~AtEarliest(messages, current_limit, current_direction)
                /\ loading = None
        THEN "Backward"
        ELSE IF /\ scroll_delta > 0
                /\ bottom_gap < min_buffer
                /\ ~AtLatest(mode, messages, current_limit, current_direction)
                /\ loading = None
        THEN "Forward"
        ELSE None


\* --------------------------------------------------------------- actions
\* The browser dispatches a pending scroll event and runs the animation
\* frame callbacks with the next rendering update, and the rendering layer
\* runs a scheduled after_layout on the next tick, before further input,
\* timers or tasks are handled.
FrameIdle == pending_scroll = {} /\ ~raf_pending
Idle == FrameIdle /\ ~after_layout_pending

\* The rendering layer calls bind_container(c).  ptr::eq compares the
\* addresses of two distinct locals, so two Some values never count as the
\* same container.
\* Mutant: the listeners of the old container are left attached.
BindContainerBody_NoRemove(c) ==
    LET same_container == container = None /\ c = None
    IN  IF same_container
        THEN UNCHANGED <<bindVars, last_scroll_top, pending_scroll>>
        ELSE /\ container' = c
             /\ pending_scroll' = IF c = container THEN pending_scroll ELSE {}
             /\ IF c = None
                THEN /\ closures' = [k \in Kinds |-> FALSE]
                     /\ listeners' = listeners
                     /\ UNCHANGED last_scroll_top
                ELSE /\ last_scroll_top' = scroll_top
                     /\ closures' = [k \in Kinds |-> TRUE]
                     /\ listeners' = [listeners EXCEPT ![c] =
                                         [k \in Kinds |-> @[k] + 1]]

\* Mutant: bind_container(None) detaches the listeners but keeps the
\* container stored.
BindContainerBody_KeepContainer(c) ==
    LET same_container == container = None /\ c = None
        removed == IF container = None THEN listeners
                   ELSE [listeners EXCEPT ![container] =
                            [k \in Kinds |-> IF closures[k] /\ @[k] > 0
                                             THEN @[k] - 1 ELSE @[k]]]
    IN  IF same_container
        THEN UNCHANGED <<bindVars, last_scroll_top, pending_scroll>>
        ELSE /\ container' = IF c = None THEN container ELSE c
             /\ pending_scroll' = IF c = container THEN pending_scroll ELSE {}
             /\ IF c = None
                THEN /\ closures' = [k \in Kinds |-> FALSE]
                     /\ listeners' = removed
                     /\ UNCHANGED last_scroll_top
                ELSE /\ last_scroll_top' = scroll_top
                     /\ closures' = [k \in Kinds |-> TRUE]
                     /\ listeners' = [removed EXCEPT ![c] =
                                         [k \in Kinds |-> @[k] + 1]]

BindContainerBody(c) ==
    LET same_container == container = None /\ c = None
        removed == IF container = None THEN listeners
                   ELSE [listeners EXCEPT ![container] =
                            [k \in Kinds |-> IF closures[k] /\ @[k] > 0
                                             THEN @[k] - 1 ELSE @[k]]]
    IN  IF same_container
        THEN UNCHANGED <<bindVars, last_scroll_top, pending_scroll>>
        ELSE /\ container' = c
             /\ pending_scroll' = IF c = container THEN pending_scroll ELSE {}
             /\ IF c = None
                THEN /\ closures' = [k \in Kinds |-> FALSE]
                     /\ listeners' = removed
                     /\ UNCHANGED last_scroll_top
                ELSE /\ last_scroll_top' = scroll_top
                     /\ closures' = [k \in Kinds |-> TRUE]
                     /\ listeners' = [removed EXCEPT ![c] =
                                         [k \in Kinds |-> @[k] + 1]]

\* What a call bind_container(c) does to the listeners of the DOM.
BindEvent(c) ==
    LET returns == container = None /\ c = None
    IN  [op      |-> "bind",
         from    |-> container,
         removed |-> IF returns \/ container = None THEN 0
                     ELSE Cardinality({k \in Kinds :
                              closures[k] /\ listeners[container][k] > 0}),
         added   |-> IF returns \/ c = None THEN 0 ELSE Cardinality(Kinds)]

\* What a call of bind_container(c) does to the manager and the DOM.
BindContainerStep(c) ==
    /\ Idle
    /\ BindContainerBody(c)
    /\ ev' = BindEvent(c)
    /\ UNCHANGED <<ctrlVars, applied, metrics, user_scrolling, initialized,
                   messages, store_size, rejects_left, tasks, geom, scroll_top,
                   raf_pending, after_layout_pending, destroyed, rendered>>

\* A call of bind_container(c).
BindContainerCall(c) ==
    /\ BindContainerStep(c)
    /\ UNCHANGED <<viewVars, notifyVars>>

\* The rendering layer binds the manager it holds (chat.rs, bind effect).
BindContainer(c) ==
    /\ ~destroyed
    /\ BindContainerCall(c)

\* A call of destroy.
DestroyCall ==
    /\ Idle
    /\ BindContainerBody(None)
    /\ destroyed' = TRUE
    /\ ev' = [op |-> "destroy", again |-> destroyed]
    /\ UNCHANGED <<mode, loading, last_continuation_key, current_limit,
                   current_direction, selection, applied, metrics,
                   user_scrolling, initialized, messages, store_size, rejects_left, viewVars, notifyVars, tasks,
                   geom, scroll_top, raf_pending, after_layout_pending,
                   rendered>>

\* The room changes (chat.rs, manager lifecycle effect): if a room is
\* selected, the manager of that room is created, which makes its room the
\* active one; then the old manager is destroyed and its handle dropped.
Destroy(room_selected) ==
    /\ ~destroyed
    /\ DestroyCall
    /\ active_room' = IF room_selected THEN OtherRoom ELSE active_room

\* The public set_live_mode.
SetLiveMode ==
    /\ Idle
    /\ ~destroyed
    /\ SetLiveModeBody
    /\ \E ok \in Outcomes :
          /\ applied' = Adopted(applied, LiveSelection(ComputeLimit), ok)
          /\ rejects_left' = rejects_left - Rejected(ok)
          /\ UNCHANGED <<viewVars, notifyVars>>
          /\ ev' = [op |-> "set_live_mode", again |-> ev.op = "set_live_mode",
                    accepted |-> ok, surfaced |-> Surfaced(ok)]
    /\ tasks' = MarkLive(tasks)
    /\ UNCHANGED <<metrics, last_scroll_top, user_scrolling, initialized,
                   bindVars, messages, store_size, geom, scrollVars,
                   after_layout_pending, destroyed, rendered>>

\* Mutant: jump_to_live without its scroll_to_bottom.
JumpToLive_NoScroll ==
    /\ Idle
    /\ ~destroyed
    /\ SetLiveModeBody
    /\ \E ok \in Outcomes :
          /\ applied' = Adopted(applied, LiveSelection(ComputeLimit), ok)
          /\ rejects_left' = rejects_left - Rejected(ok)
          /\ UNCHANGED <<viewVars, notifyVars>>
          /\ ev' = [op |-> "jump_to_live", mode_before |-> mode,
                    accepted |-> ok, surfaced |-> Surfaced(ok)]
    /\ UNCHANGED scrollVars
    /\ tasks' = MarkLive(tasks)
    /\ UNCHANGED <<metrics, last_scroll_top, user_scrolling, initialized,
                   bindVars, messages, store_size, geom,
                   after_layout_pending, destroyed, rendered>>

\* jump_to_live: the "Jump to Current" button.
JumpToLive ==
    /\ Idle
    /\ ~destroyed
    /\ SetLiveModeBody
    /\ \E ok \in Outcomes :
          /\ applied' = Adopted(applied, LiveSelection(ComputeLimit), ok)
          /\ rejects_left' = rejects_left - Rejected(ok)
          /\ UNCHANGED <<viewVars, notifyVars>>
          /\ ev' = [op |-> "jump_to_live", mode_before |-> mode,
                    accepted |-> ok, surfaced |-> Surfaced(ok)]
    /\ ScrollToBottom
    /\ tasks' = MarkLive(tasks)
    /\ UNCHANGED <<metrics, last_scroll_top, user_scrolling, initialized,
                   bindVars, messages, store_size, geom,
                   after_layout_pending, destroyed, rendered>>

\* after_layout, scheduled by the rendering layer when the count changed.
AfterLayout ==
    /\ FrameIdle
    /\ after_layout_pending
    /\ after_layout_pending' = FALSE
    /\ initialized' = TRUE
    /\ IF ShouldAutoScroll THEN ScrollToBottom ELSE UNCHANGED scrollVars
    /\ ev' = [op |-> "after_layout", auto |-> ShouldAutoScroll,
              first |-> ~initialized]
    /\ UNCHANGED <<ctrlVars, applied, metrics, last_scroll_top, user_scrolling,
                   bindVars, messages, store_size, rejects_left, viewVars, notifyVars, tasks, geom, destroyed, rendered>>

\* on_user_scroll: the wheel and touchstart listeners.
OnUserScroll(kind) ==
    /\ Idle
    /\ container # None
    /\ listeners[container][kind] > 0
    /\ user_scrolling' = TRUE
    /\ ev' = [op |-> "other"]
    /\ UNCHANGED <<ctrlVars, applied, metrics, last_scroll_top, initialized, bindVars,
                   messages, store_size, rejects_left, viewVars, notifyVars, tasks, geom, scrollVars,
                   after_layout_pending, destroyed, rendered>>

\* Mutant: every scroll event counts as user-initiated.
UserInitiated_Always == TRUE

\* on_scroll only triggers loads on user-initiated scrolls.
UserInitiated == user_scrolling

\* on_scroll: the scroll listener, run when the browser dispatches the
\* pending scroll event.
OnScroll ==
    LET scroll_delta == scroll_top - last_scroll_top
        trigger == IF UserInitiated THEN ScrollTrigger(scroll_delta) ELSE None
    IN  /\ pending_scroll # {}
        /\ container # None
        /\ listeners[container]["scroll"] > 0
        /\ pending_scroll' = {}
        /\ last_scroll_top' = scroll_top
        /\ UpdateMetrics
        /\ user_scrolling' = FALSE
        /\ IF trigger # None THEN LoadMore(trigger) ELSE UNCHANGED loadVars
        /\ ev' = [op |-> "scroll", src |-> pending_scroll,
                  flag |-> user_scrolling, trigger |-> trigger,
                  had_key |-> last_continuation_key # None,
                  outcome |-> IF trigger = None THEN "none"
                              ELSE LoadMoreOutcome(trigger)]
        /\ UNCHANGED <<current_limit, current_direction, selection, applied,
                       initialized,
                       bindVars, messages, store_size, rejects_left, viewVars, notifyVars, geom, scroll_top,
                       raf_pending, after_layout_pending, destroyed, rendered>>

\* Mutant: the future returns at a rejected rewrite, before it clears
\* loading.
TaskRun_ReturnOnErr ==
    /\ Idle
    /\ tasks # << >>
    /\ \E ok \in Outcomes :
       LET t == Head(tasks)
           is_backward == t.direction = "Backward"
           op == IF is_backward THEN "<=" ELSE ">="
           order == IF is_backward THEN "DESC" ELSE "ASC"
           predicate == PageSelection(op, t.timestamp, order, t.limit)
           at_latest == AtLatest(mode, messages, t.limit, order)
           y_after == OffsetToParentY(t.timestamp, rendered)
           delta == y_after - t.y_before
       IN  /\ IF at_latest
              THEN /\ SetLiveModeBody
                   /\ \E ok_live \in Outcomes :
                         /\ Rejected(ok) + Rejected(ok_live) <= rejects_left
                         /\ applied' = Adopted(Adopted(applied, predicate, ok),
                                         LiveSelection(ComputeLimit), ok_live)
                         /\ rejects_left' = rejects_left - Rejected(ok)
                                                         - Rejected(ok_live)
                         /\ UNCHANGED <<viewVars, notifyVars>>
                   /\ tasks' = MarkLive(Tail(tasks))
                   /\ UNCHANGED scrollVars
              ELSE /\ selection' = UpdateSelection(selection, predicate)
                   /\ applied' = Adopted(applied, predicate, ok)
                   /\ rejects_left' = rejects_left - Rejected(ok)
                   /\ UNCHANGED <<viewVars, notifyVars>>
                   /\ current_limit' = t.limit
                   /\ current_direction' = order
                   /\ ScrollTo(scroll_top + delta)
                   /\ loading' = IF ok THEN None ELSE loading
                   /\ tasks' = Tail(tasks)
                   /\ UNCHANGED <<mode, last_continuation_key, active_room>>
           /\ ev' = [op |-> "task", direction |-> t.direction,
                     mode_before |-> mode, live_since |-> t.live_since,
                     flipped |-> at_latest, accepted |-> ok,
                     surfaced |-> Surfaced(ok),
                     under_limit |-> Len(messages) < t.limit,
                     own_under_limit |->
                         Len(Eval(predicate, store_size)) < t.limit]
    /\ UNCHANGED <<metrics, last_scroll_top, user_scrolling, initialized,
                   bindVars, messages, store_size, geom,
                   after_layout_pending, destroyed, rendered>>

\* The future spawned by load_more runs; it has no await point.
TaskRun ==
    /\ Idle
    /\ tasks # << >>
    /\ \E ok \in Outcomes :
       LET t == Head(tasks)
           is_backward == t.direction = "Backward"
           op == IF is_backward THEN "<=" ELSE ">="
           order == IF is_backward THEN "DESC" ELSE "ASC"
           predicate == PageSelection(op, t.timestamp, order, t.limit)
           at_latest == AtLatest(mode, messages, t.limit, order)
           y_after == OffsetToParentY(t.timestamp, rendered)
           delta == y_after - t.y_before
       IN  /\ IF at_latest
              THEN /\ SetLiveModeBody
                   /\ \E ok_live \in Outcomes :
                         /\ Rejected(ok) + Rejected(ok_live) <= rejects_left
                         /\ applied' = Adopted(Adopted(applied, predicate, ok),
                                         LiveSelection(ComputeLimit), ok_live)
                         /\ rejects_left' = rejects_left - Rejected(ok)
                                                         - Rejected(ok_live)
                         /\ UNCHANGED <<viewVars, notifyVars>>
                   /\ tasks' = MarkLive(Tail(tasks))
                   /\ UNCHANGED scrollVars
              ELSE /\ selection' = UpdateSelection(selection, predicate)
                   /\ applied' = Adopted(applied, predicate, ok)
                   /\ rejects_left' = rejects_left - Rejected(ok)
                   /\ UNCHANGED <<viewVars, notifyVars>>
                   /\ current_limit' = t.limit
                   /\ current_direction' = order
                   /\ ScrollTo(scroll_top + delta)
                   /\ loading' = None
                   /\ tasks' = Tail(tasks)
                   /\ UNCHANGED <<mode, last_continuation_key, active_room>>
           /\ ev' = [op |-> "task", direction |-> t.direction,
                     mode_before |-> mode, live_since |-> t.live_since,
                     flipped |-> at_latest, accepted |-> ok,
                     surfaced |-> Surfaced(ok),
                     under_limit |-> Len(messages) < t.limit,
                     own_under_limit |->
                         Len(Eval(predicate, store_size)) < t.limit]
    /\ UNCHANGED <<metrics, last_scroll_top, user_scrolling, initialized,
                   bindVars, messages, store_size, geom,
                   after_layout_pending, destroyed, rendered>>

\* The requestAnimationFrame callback of scroll_to.
AnimationFrame ==
    /\ pending_scroll = {}
    /\ raf_pending
    /\ raf_pending' = FALSE
    /\ UpdateMetrics
    /\ ev' = [op |-> "other"]
    /\ UNCHANGED <<ctrlVars, applied, last_scroll_top, user_scrolling, initialized,
                   bindVars, messages, store_size, rejects_left, viewVars, notifyVars, tasks, geom, scroll_top,
                   pending_scroll, after_layout_pending, destroyed, rendered>>

\* ----------------------------------------------------------- environment
\* The browser keeps scrollTop within the scrollable range.
Relayout(g, raw) ==
    /\ scroll_top' = Clamp(scroll_top, 0, MaxScrollTop(g, raw))
    /\ pending_scroll' = IF scroll_top' # scroll_top /\ container # None
                         THEN pending_scroll \cup {"browser"}
                         ELSE pending_scroll

\* The LiveQuery handle catches up with its predicate and the store; the
\* message list renders items(), which tracks messages but only peeks mode.
QueryResolve ==
    /\ Idle
    /\ messages # Eval(applied, store_size)
    /\ messages' = Eval(applied, store_size)
    /\ rendered' = Items(mode, messages')
    /\ Relayout(geom, messages')
    /\ after_layout_pending' =
           (\/ after_layout_pending
            \/ layout_effect_subscribed /\ Len(messages') # Len(messages))
    /\ ev' = [op |-> "rows", changed |-> Len(messages') # Len(messages)]
    /\ UNCHANGED <<ctrlVars, applied, metrics, last_scroll_top, user_scrolling,
                   initialized, bindVars, store_size, rejects_left, viewVars, notifyVars, tasks, geom,
                   raf_pending, destroyed>>

NewMessage ==
    /\ Idle
    /\ store_size < MaxMsgs
    /\ store_size' = store_size + 1
    /\ ev' = [op |-> "other"]
    /\ UNCHANGED <<ctrlVars, applied, rejects_left, viewVars, notifyVars, metrics, last_scroll_top, user_scrolling,
                   initialized, bindVars, messages, tasks, geom, scrollVars,
                   after_layout_pending, destroyed, rendered>>

\* The user moves the scroll position of the bound container.
BrowserScroll(target) ==
    /\ Idle
    /\ container # None
    /\ target # scroll_top
    /\ target <= MaxScrollTop(geom, messages)
    /\ scroll_top' = target
    /\ pending_scroll' = pending_scroll \cup {"browser"}
    /\ ev' = [op |-> "other"]
    /\ UNCHANGED <<ctrlVars, applied, metrics, last_scroll_top, user_scrolling,
                   initialized, bindVars, messages, store_size, rejects_left, viewVars, notifyVars, tasks, geom,
                   raf_pending, after_layout_pending, destroyed, rendered>>

\* The user scrolls to the top or to the bottom of the content.
ScrollStops == {0, MaxScrollTop(geom, messages)}

Next ==
    \/ \E c \in Containers \cup {None} : BindContainer(c)
    \/ \E room_selected \in BOOLEAN : Destroy(room_selected)
    \/ SetLiveMode
    \/ JumpToLive
    \/ AfterLayout
    \/ \E kind \in {"wheel", "touchstart"} : OnUserScroll(kind)
    \/ OnScroll
    \/ TaskRun
    \/ AnimationFrame
    \/ QueryResolve
    \/ NewMessage
    \/ \E target \in ScrollStops : BrowserScroll(target)

Spec == Init /\ [][Next]_vars

\* --------------------------------------------- bind_container, destroy
\* Any sequence of bind_container and destroy calls, with any element or
\* none, while the user scrolls the bound container.
BindNext ==
    \/ \E c \in Elements \cup {None} : BindContainerCall(c)
    \/ (DestroyCall /\ UNCHANGED active_room)
    \/ AfterLayout
    \/ \E kind \in {"wheel", "touchstart"} : OnUserScroll(kind)
    \/ OnScroll
    \/ AnimationFrame
    \/ QueryResolve
    \/ \E target \in ScrollStops : BrowserScroll(target)

BindSpec == Init /\ [][BindNext]_vars

\* ------------------------------------------------- should_auto_scroll
\* A manager in any mode whose metrics hold any bottom gap up to MaxGap.
InitAnyGap ==
    /\ \E m \in Modes, gap \in 0..MaxGap :
          ManagerIn(m, [ZeroMetrics EXCEPT !.bottom_gap = gap])
    /\ geom \in Geometries
    /\ rejects_left = 0
    /\ NoView /\ QuietNotifier
    /\ ev = [op |-> "other"]

\* The rendering layer asks should_auto_scroll (chat.rs).
AskShouldAutoScroll ==
    /\ ev.op # "should_auto_scroll"
    /\ ev' = [op |-> "should_auto_scroll", result |-> ShouldAutoScroll]
    /\ UNCHANGED <<ctrlVars, applied, metrics, last_scroll_top, user_scrolling,
                   initialized, bindVars, messages, store_size, rejects_left, viewVars, notifyVars,
                   tasks, geom, scrollVars, after_layout_pending, destroyed,
                   rendered>>

AutoScrollSpec == InitAnyGap /\ [][AskShouldAutoScroll]_vars

\* ------------------------------------------- a container without room
\* A session whose container has one of the HiddenGeometries.
InitHidden ==
    /\ ManagerIn("Live", ZeroMetrics)
    /\ geom \in HiddenGeometries
    /\ ev = [op |-> "new"]
    /\ rejects_left = 0
    /\ NoView /\ QuietNotifier

HiddenSpec == InitHidden /\ [][Next]_vars

\* -------------------------------------------------------- compute_limit
\* Any container, bound or not, with any client height up to MaxHeight and
\* any paddings up to MaxPad.  A hidden container has client height 0 and
\* keeps its computed paddings.
InitGeometry ==
    /\ ManagerIn("Live", ZeroMetrics)
    /\ geom \in Geometries
    /\ rejects_left = 0
    /\ NoView /\ QuietNotifier
    /\ \E c \in Containers \cup {None}, client_height \in 0..MaxHeight,
          padding_top \in 0..MaxPad, padding_bottom \in 0..MaxPad :
          ev = [op |-> "geometry", container |-> c,
                geom |-> [client_height |-> client_height,
                          padding_top |-> padding_top,
                          padding_bottom |-> padding_bottom]]

\* compute_limit with that container.
AskComputeLimit ==
    /\ ev.op = "geometry"
    /\ ev' = [op |-> "compute_limit", input |-> ev,
              result |-> ComputeLimitOf(ev.container, ev.geom)]
    /\ UNCHANGED <<ctrlVars, applied, metrics, last_scroll_top, user_scrolling,
                   initialized, bindVars, messages, store_size, rejects_left,
                   viewVars, notifyVars, tasks, geom, scrollVars, after_layout_pending,
                   destroyed, rendered>>

LimitSpec == InitGeometry /\ [][AskComputeLimit]_vars

\* ---------------------------------------------- get_continuation_anchor
\* A window of up to MaxWin messages whose elements lie anywhere: at most
\* one element is missing from the DOM, offset_top is in 0..MaxPos and
\* offset_height in Heights, in any order and overlapping or not.
InitLayout ==
    /\ ManagerIn("Live", ZeroMetrics)
    /\ geom \in Geometries
    /\ rejects_left = 0
    /\ NoView /\ QuietNotifier
    /\ \E n \in 1..MaxWin :
       \E top \in [1..n -> 0..MaxPos], height \in [1..n -> Heights],
          missing \in 0..n, step_back \in 0..MaxPos,
          direction \in {"Backward", "Forward"} :
          ev = [op |-> "layout", direction |-> direction, n |-> n,
                present |-> (1..n) \ {missing}, top |-> top,
                height |-> height, step_back |-> step_back]

\* get_continuation_anchor on a bound container with that window.
AskAnchor ==
    /\ ev.op = "layout"
    /\ ev' = [op |-> "anchor", input |-> ev,
              result |-> AnchorAt(ev.direction, ev.n, ev.present, ev.top,
                                  ev.height, ev.step_back)]
    /\ UNCHANGED <<ctrlVars, applied, metrics, last_scroll_top, user_scrolling,
                   initialized, bindVars, messages, store_size, rejects_left, viewVars, notifyVars,
                   tasks, geom, scrollVars, after_layout_pending, destroyed,
                   rendered>>

AnchorSpec == InitLayout /\ [][AskAnchor]_vars

\* ------------------------------------------------------- load_more
\* A caller other than on_scroll calls the public load_more.
LoadMoreCall(direction) ==
    /\ Idle
    /\ LoadMore(direction)
    /\ ev' = [op |-> "load_more", direction |-> direction,
              outcome |-> LoadMoreOutcome(direction)]
    /\ UNCHANGED <<current_limit, current_direction, selection, applied,
                   metrics, last_scroll_top, user_scrolling, initialized,
                   bindVars, messages, store_size, rejects_left, viewVars, notifyVars,
                   geom, scrollVars, after_layout_pending, destroyed,
                   rendered>>

ApiNext ==
    \/ \E c \in Containers \cup {None} : BindContainer(c)
    \/ SetLiveMode
    \/ AfterLayout
    \/ OnScroll
    \/ \E direction \in {"Backward", "Forward"} : LoadMoreCall(direction)
    \/ TaskRun
    \/ AnimationFrame
    \/ QueryResolve

ApiSpec == Init /\ [][ApiNext]_vars

\* ------------------------------------------------ the Chat component
\* A room has been selected and its manager created: the effect that binds
\* the container is due, and the view has not rendered the container yet
\* (it renders it only for a manager that exists).  The after_layout
\* effect reads the manager with get_untracked: it tracks the messages of
\* the manager it found at its last run, so it follows this manager when
\* the manager existed then, and nothing when the room was selected after
\* the component had been created.
InitView ==
    /\ NewManager
    /\ rejects_left = 0
    /\ node_ref = None
    /\ bind_effect_pending = TRUE
    /\ layout_effect_subscribed \in BOOLEAN
    /\ QuietNotifier

\* The view renders <div class="messagesContainer" node_ref=...>.
Mount(c) ==
    /\ node_ref = None
    /\ node_ref' = c
    /\ ev' = [op |-> "mount"]
    /\ UNCHANGED <<ctrlVars, applied, metrics, last_scroll_top, user_scrolling,
                   initialized, bindVars, messages, store_size, rejects_left,
                   bind_effect_pending, layout_effect_subscribed, notifyVars,
                   tasks, geom, scrollVars,
                   after_layout_pending, destroyed, rendered>>

\* The effect runs: it tracks the manager signal only and reads the NodeRef
\* with get_untracked, so it is due once for a manager and never again
\* because of the NodeRef.
BindEffect ==
    /\ bind_effect_pending
    /\ bind_effect_pending' = FALSE
    /\ BindContainerStep(node_ref)
    /\ UNCHANGED <<node_ref, layout_effect_subscribed, notifyVars>>

ViewNext ==
    \/ \E c \in Containers : Mount(c)
    \/ BindEffect
    \/ SetLiveMode
    \/ JumpToLive
    \/ AfterLayout
    \/ \E kind \in {"wheel", "touchstart"} : OnUserScroll(kind)
    \/ OnScroll
    \/ TaskRun
    \/ AnimationFrame
    \/ QueryResolve
    \/ \E target \in ScrollStops : BrowserScroll(target)

\* The effect runs when it is due, and so does everything else that is
\* scheduled.
ViewSpec ==
    /\ InitView
    /\ [][ViewNext]_vars
    /\ WF_vars(BindEffect)
    /\ SF_vars(TaskRun)
    /\ WF_vars(OnScroll)
    /\ WF_vars(AnimationFrame)
    /\ WF_vars(AfterLayout)

\* ----------------------------------------------------- a faulty store
\* A session in one room whose store rejects up to MaxRejects rewrites and
\* receives no new message meanwhile.
FaultyNext ==
    \/ \E c \in Containers \cup {None} : BindContainer(c)
    \/ \E room_selected \in BOOLEAN : Destroy(room_selected)
    \/ SetLiveMode
    \/ JumpToLive
    \/ AfterLayout
    \/ \E kind \in {"wheel", "touchstart"} : OnUserScroll(kind)
    \/ OnScroll
    \/ TaskRun
    \/ AnimationFrame
    \/ QueryResolve
    \/ \E target \in ScrollStops : BrowserScroll(target)

\* The executor runs a spawned future at the next microtask checkpoint,
\* whatever else is waiting (strong fairness); the browser dispatches a
\* pending scroll event, runs the animation frame callbacks and the
\* rendering layer runs a scheduled after_layout (weak fairness).
FaultySpec ==
    /\ InitFaulty
    /\ [][FaultyNext]_vars
    /\ SF_vars(TaskRun)
    /\ WF_vars(OnScroll)
    /\ WF_vars(AnimationFrame)
    /\ WF_vars(AfterLayout)


\* ================================================================ claims
\* A scroll event is being dispatched to on_scroll.
IsOnScroll == pending_scroll # {} /\ pending_scroll' = {}

\* load_more(direction) would compute exactly the stored continuation key.
SameKey(direction) ==
    LET message_list == Items(mode, messages)
        a == GetContinuationAnchor(direction, message_list)
    IN  a # 0 /\ last_continuation_key = ContinuationKey(direction, message_list[a])

\* load_more(direction) finds an anchor whose key differs from the stored one.
OtherKey(direction) ==
    LET message_list == Items(mode, messages)
        a == GetContinuationAnchor(direction, message_list)
    IN  /\ a # 0
        /\ last_continuation_key # None
        /\ last_continuation_key # ContinuationKey(direction, message_list[a])

C3_BoundaryCheckOnOwnResult ==
    ev.op = "task" =>
        (ev.flipped <=> (\/ ev.mode_before = "Live"
                         \/ (ev.direction = "Forward" /\ ev.own_under_limit)))

C7_OnlyUserScrollPaginates ==
    [][IsOnScroll =>
        /\ (tasks' # tasks => user_scrolling)
        /\ ~user_scrolling'
        /\ (~user_scrolling =>
              UNCHANGED <<ctrlVars, tasks, initialized, bindVars, messages,
                          store_size, rendered, geom, scroll_top,
                          raf_pending, after_layout_pending, destroyed>>)]_vars

C7_Witness ==
    /\ ev.op = "scroll"
    /\ ev.flag
    /\ ev.outcome = "started"
    /\ ~user_scrolling

\* C8: a load_more whose key equals the stored continuation key aborts and
\* leaves mode, loading, the key, the recorded limit and order, the
\* selection and the active room unchanged, and spawns no task.
C8_DedupAbortChangesNothing ==
    [][(IsOnScroll /\ ev'.trigger # None /\ SameKey(ev'.trigger)) =>
        UNCHANGED <<ctrlVars, tasks>>]_vars

C8_Witness ==
    /\ ev.op = "scroll"
    /\ ev.outcome = "dedup"

C10_SetLiveModeIdempotent ==
    [][(ev.op = "set_live_mode" /\ ev'.op = "set_live_mode") =>
        UNCHANGED <<selection, mode, loading, last_continuation_key,
                    current_limit, current_direction>>]_vars

C10_Witness ==
    /\ ev.op = "set_live_mode"
    /\ ev.again

\* C11: whenever set_live_mode is called, by the rendering layer or by a
\* load_more task at the newest edge, it leaves mode = Live, no
\* continuation key, loading = None, the unbounded descending selection
\* with limit compute_limit() and this manager's room as the active room,
\* and it neither moves the scroll position nor schedules a scroll.
C11_SetLiveModePostState ==
    [][(ev'.op = "set_live_mode" \/ (ev'.op = "task" /\ ev'.flipped)) =>
        /\ mode' = "Live"
        /\ last_continuation_key' = None
        /\ loading' = None
        /\ selection' = LiveSelection(ComputeLimit)
        /\ active_room' = RoomId
        /\ UNCHANGED <<scroll_top, pending_scroll, raf_pending, container, geom>>]_vars

C11_Witness ==
    /\ ev.op = "set_live_mode"
    /\ tasks # << >>
    /\ scroll_top = 0
    /\ MaxScrollTop(geom, messages) > 0
    /\ active_room = RoomId

\* C12: jump_to_live does what set_live_mode does and then commands the
\* bound container to the bottom of its content, in whatever mode and
\* loading state it is called; and a load_more task that was pending then
\* and settles with no load_more started since leaves the manager in Live
\* mode with the unbounded descending selection.
C12_JumpToLive ==
    [][/\ ev'.op = "jump_to_live" =>
             /\ mode' = "Live"
             /\ last_continuation_key' = None
             /\ loading' = None
             /\ selection' = LiveSelection(ComputeLimit)
             /\ active_room' = RoomId
             /\ container # None =>
                    /\ scroll_top' = MaxScrollTop(geom, messages)
                    /\ raf_pending'
       /\ (ev'.op = "task" /\ ev'.live_since /\ ev'.mode_before = "Live") =>
             /\ mode' = "Live"
             /\ loading' = None
             /\ selection' = LiveSelection(ComputeLimit)]_vars

C12_Witness ==
    /\ ev.op = "jump_to_live"
    /\ ev.mode_before = "Backward"
    /\ tasks # << >>
    /\ scroll_top = MaxScrollTop(geom, messages)
    /\ scroll_top > 0
    /\ raf_pending

\* The handle holds the result of the predicate it was last given.
Fetched == applied = selection /\ messages = Eval(selection, store_size)

\* C13: whenever the handle holds the result of the most recent fetch,
\* at_earliest() is true exactly if the order of the selection is
\* descending and that result has fewer rows than the fetch asked for.
C13_AtEarliestIffShortDescending ==
    Fetched =>
        (AtEarliest(messages, current_limit, current_direction)
            <=> (/\ selection.order = "DESC"
                 /\ Len(Eval(selection, store_size)) < selection.limit))

\* After the default limit and the limit of the bound container were in
\* use, a backward page came back short.
C13_Witness ==
    /\ Fetched
    /\ selection.op = "<="
    /\ selection.limit # DefaultLimit
    /\ AtEarliest(messages, current_limit, current_direction)

\* C14: in every state at_latest() is true exactly if mode is Live, or the
\* order of the selection is ascending and the handle holds fewer rows
\* than the selection's limit.
C14_AtLatestIffLiveOrShortAscending ==
    AtLatest(mode, messages, current_limit, current_direction)
        <=> (\/ mode = "Live"
             \/ (selection.order = "ASC" /\ Len(messages) < selection.limit))

C14_Witness ==
    /\ mode = "Forward"
    /\ selection.order = "ASC"
    /\ messages = Eval(selection, store_size)
    /\ AtLatest(mode, messages, current_limit, current_direction)

\* C15: should_auto_scroll() is true exactly if mode is Live and the bottom
\* gap of the metrics is below 50: in Live mode false at 51 and at 50 and
\* true at 49, and false for every gap in Backward and Forward mode.
C15_ShouldAutoScroll ==
    ev.op = "should_auto_scroll" =>
        /\ ev.result <=> (mode = "Live" /\ metrics.bottom_gap < 50)
        /\ (mode = "Live" /\ metrics.bottom_gap \in {50, 51}) => ~ev.result
        /\ (mode = "Live" /\ metrics.bottom_gap = 49) => ev.result
        /\ mode \in {"Backward", "Forward"} => ~ev.result

C15_Witness ==
    /\ ev.op = "should_auto_scroll"
    /\ mode = "Live"
    /\ metrics.bottom_gap = 49
    /\ ev.result

\* C16: bind_container called with the container that is already bound
\* removes no listener and adds none, and leaves the stored container,
\* the listeners and last_scroll_top as they were.
C16_RebindSameIsNoOp ==
    [][(ev'.op = "bind" /\ container # None /\ container' = container) =>
        /\ ev'.removed = 0
        /\ ev'.added = 0
        /\ UNCHANGED <<bindVars, last_scroll_top>>]_vars

\* C17: after any sequence of bind_container and destroy calls the bound
\* container carries exactly one scroll, one wheel and one touchstart
\* listener of this manager and no other element carries any; right after
\* destroy, first or repeated, no container is bound and no listener is
\* attached anywhere.
C17_OneListenerSet ==
    /\ \A c \in Elements : \A k \in Kinds :
          listeners[c][k] = IF c = container THEN 1 ELSE 0
    /\ \A k \in Kinds : closures[k] <=> container # None
    /\ ev.op = "destroy" =>
          /\ container = None
          /\ \A c \in Elements : \A k \in Kinds : listeners[c][k] = 0

\* The manager was bound to one element and then to another one.
C17_Witness ==
    /\ ev.op = "bind"
    /\ ev.from = "c1"
    /\ container = "c2"
    /\ ev.removed = Cardinality(Kinds)

\* A spawned load_more future runs to its end.
IsTaskRun == Len(tasks') < Len(tasks)

\* A scheduled after_layout runs.
IsAfterLayout == after_layout_pending /\ ~after_layout_pending'

\* C18: once destroy was called, the manager holds no container and no
\* element carries its listeners, so that no scroll event reaches
\* on_scroll; a load_more task or an after_layout that runs afterwards
\* neither moves the scroll position nor schedules a scroll event or an
\* animation frame callback, and leaves metrics and last_scroll_top alone.
C18_DestroyedTouchesNoContainer ==
    [][destroyed =>
        /\ container' = None
        /\ \A c \in Elements : \A k \in Kinds : listeners'[c][k] = 0
        /\ ~IsOnScroll
        /\ ~raf_pending'
        /\ (IsTaskRun \/ IsAfterLayout) =>
              UNCHANGED <<scroll_top, pending_scroll, raf_pending, metrics,
                          last_scroll_top>>]_vars

\* A task spawned before destroy ran after destroy, on a window that can
\* scroll, and did not take the scroll_to branch into the container.
C18_Witness ==
    /\ destroyed
    /\ ev.op = "task"
    /\ ~ev.flipped
    /\ container = None
    /\ MaxScrollTop(geom, messages) > 0

C20_LoadingEventuallyCleared == (loading # None) ~> (loading = None)

\* A load_more task whose rewrite the store rejected has settled.
C20_Witness ==
    /\ ev.op = "task"
    /\ ~ev.accepted
    /\ ~ev.flipped
    /\ applied # selection
    /\ loading = None

\* C21: when the store rejects a rewrite issued by the load_more task, by
\* set_live_mode or by jump_to_live, the error is returned to the caller
\* or logged.
C21_RejectionSurfaced ==
    (ev.op \in {"task", "set_live_mode", "jump_to_live"} /\ ~ev.accepted)
        => ev.surfaced

\* C22: a load_more task whose rewrite the store rejected leaves the
\* window in place when it settles: items() is what it was, the handle
\* runs the predicate it ran, and the limit and order that at_earliest()
\* and at_latest() read are those of the predicate the handle runs.
C22_RejectedLoadKeepsWindow ==
    [][(IsTaskRun /\ ~ev'.accepted /\ ~ev'.flipped) =>
        /\ Items(mode', messages') = Items(mode, messages)
        /\ applied' = applied
        /\ current_limit' = applied'.limit
        /\ current_direction' = applied'.order]_vars

\* C23: for every non-empty window, direction and layout of the elements,
\* get_continuation_anchor returns None or a message of the window, and it
\* returns a message of the window when every element is in the DOM.
C23_AnchorInWindow ==
    ev.op = "anchor" =>
        /\ ev.result \in 0..ev.input.n
        /\ ev.input.present = 1..ev.input.n => ev.result \in 1..ev.input.n

\* Both fallbacks: no element is a candidate and the oldest (Backward) or
\* newest (Forward) message of a full window is returned.
C23_Witness ==
    /\ ev.op = "anchor"
    /\ ev.input.n = MaxWin
    /\ ev.input.present = 1..MaxWin
    /\ ev.input.step_back = MaxPos
    /\ \A i \in 1..MaxWin : ev.input.top[i] = 0 /\ ev.input.height[i] = 1
    /\ ev.result = IF ev.input.direction = "Backward" THEN 1 ELSE MaxWin

\* The anchor rule as it is documented.  Backward: the target is the bottom
\* edge of the newest message less step_back, the anchor the newest message
\* whose bottom edge is at or above it, else the oldest.  Forward: the
\* target is the top edge of the oldest message plus step_back, the anchor
\* the oldest message whose top edge is at or below it, else the newest.
AnchorRule(direction, n, top, height, step_back) ==
    IF direction = "Backward"
    THEN LET target == top[n] + height[n] - step_back
             at_or_above == {i \in 1..n : top[i] + height[i] <= target}
         IN  IF at_or_above = {} THEN 1
             ELSE CHOOSE i \in at_or_above : \A j \in at_or_above : j <= i
    ELSE LET target == top[1] + step_back
             at_or_below == {i \in 1..n : top[i] >= target}
         IN  IF at_or_below = {} THEN n
             ELSE CHOOSE i \in at_or_below : \A j \in at_or_below : i <= j

\* C29: with every element of the window in the DOM,
\* get_continuation_anchor returns the message the anchor rule names.
C29_AnchorRule ==
    (ev.op = "anchor" /\ ev.input.present = 1..ev.input.n) =>
        ev.result = AnchorRule(ev.input.direction, ev.input.n, ev.input.top,
                               ev.input.height, ev.input.step_back)

\* A Forward scan that passes the oldest message and stops at a message in
\* the middle whose top edge is exactly at the target.
C29_Witness ==
    /\ ev.op = "anchor"
    /\ ev.input.direction = "Forward"
    /\ ev.input.n = MaxWin
    /\ ev.input.present = 1..MaxWin
    /\ ev.input.step_back > 0
    /\ ev.result = 2
    /\ ev.input.top[2] = ev.input.top[1] + ev.input.step_back

\* C24: in every reachable state, also between a change of mode and the
\* arrival of the rows of the new query, items() is in ascending order of
\* timestamp.
C24_ItemsAscending ==
    LET message_list == Items(mode, messages)
    IN  \A i \in 1..(Len(message_list) - 1) :
            message_list[i] < message_list[i + 1]

\* C25: a container that is absent when the manager is created and is
\* rendered later is eventually the container the manager is bound to.
C25_ContainerEventuallyBound ==
    (node_ref # None) ~> (container = node_ref)

\* C26: a manager that ChatScrollManager::new has just returned is in Live
\* mode with no load and no continuation key, its query is the unbounded
\* descending one with the default limit, that limit and order are the
\* recorded ones, and its room is the active room of the notifier.
C26_NewManager ==
    ev.op = "new" =>
        /\ mode = "Live"
        /\ loading = None
        /\ last_continuation_key = None
        /\ selection = [op |-> "none", bound |-> 0, order |-> "DESC",
                        limit |-> DefaultLimit]
        /\ applied = selection
        /\ DefaultLimit = 100
        /\ current_limit = DefaultLimit
        /\ current_direction = "DESC"
        /\ active_room = RoomId

\* The manager as new returned it: nothing bound, nothing fetched yet.
C26_Witness ==
    /\ ev.op = "new"
    /\ container = None
    /\ ~initialized
    /\ messages = << >>
    /\ tasks = << >>

\* C27: a load_more(direction) that passes the anchor and the dedup check
\* sets mode to Backward or Forward as the direction says, sets loading to
\* the direction, stores the key of the anchor and queues a task with the
\* anchor's timestamp and the limit compute_limit() gives at the call; the
\* task, unless it ends in set_live_mode, rewrites the query to
\* `timestamp <= anchor DESC` or `timestamp >= anchor ASC` with that limit,
\* and records that limit and order.
C27_LoadMoreRewrite ==
    [][/\ (IsOnScroll /\ ev'.outcome = "started") =>
            LET message_list == Items(mode, messages)
                a == GetContinuationAnchor(ev'.trigger, message_list)
                t == tasks'[Len(tasks')]
            IN  /\ mode' = ev'.trigger
                /\ loading' = ev'.trigger
                /\ a \in 1..Len(message_list)
                /\ last_continuation_key' =
                       ContinuationKey(ev'.trigger, message_list[a])
                /\ Len(tasks') = Len(tasks) + 1
                /\ t.direction = ev'.trigger
                /\ t.timestamp = message_list[a]
                /\ t.limit = ComputeLimit
       /\ (IsTaskRun /\ ~ev'.flipped) =>
            LET t == Head(tasks)
                backward == t.direction = "Backward"
            IN  /\ selection' = [op    |-> IF backward THEN "<=" ELSE ">=",
                                 bound |-> t.timestamp,
                                 order |-> IF backward THEN "DESC" ELSE "ASC",
                                 limit |-> t.limit]
                /\ current_limit' = t.limit
                /\ current_direction' = selection'.order]_vars

\* A Forward load has run with the limit of its call, 2, although the
\* container was unbound when the task ran and compute_limit() gave the
\* default then.
C27_Witness ==
    /\ ev.op = "task"
    /\ ev.direction = "Forward"
    /\ ~ev.flipped
    /\ selection.op = ">="
    /\ selection.order = "ASC"
    /\ current_limit = 2
    /\ container = None

C30_LoadMoreWithoutAnchor ==
    [][(/\ ev'.op = "load_more"
        /\ container = None \/ Items(mode, messages) = << >>) =>
            /\ ev'.outcome = "no_anchor"
            /\ UNCHANGED <<mode, loading, last_continuation_key, selection,
                           applied, current_limit, current_direction,
                           active_room, tasks>>]_vars

\* load_more was called on a window of fetched messages after the
\* container had been unbound.
C30_Witness ==
    /\ ev.op = "load_more"
    /\ ev.outcome = "no_anchor"
    /\ container = None
    /\ initialized
    /\ messages # << >>

C32_CorrectiveScroll ==
    [][/\ (IsOnScroll /\ ev'.outcome = "started") =>
            LET t == tasks'[Len(tasks')]
            IN  /\ IndexOf(rendered, t.timestamp) # 0
                /\ t.y_before = OffsetTop(IndexOf(rendered, t.timestamp))
       /\ (/\ IsTaskRun
           /\ ~ev'.flipped
           /\ container # None
           /\ IndexOf(rendered, Head(tasks).timestamp) # 0) =>
            LET pre == Head(tasks).y_before
                post == OffsetTop(IndexOf(rendered, Head(tasks).timestamp))
            IN  /\ scroll_top' = Clamp(scroll_top + (post - pre), 0,
                                       MaxScrollTop(geom, messages))
                /\ scroll_top' # scroll_top => "prog" \in pending_scroll'
                /\ loading' = None
       /\ (IsTaskRun /\ ev'.flipped) => UNCHANGED scrollVars]_vars

\* A task has just moved the viewport by the distance its anchor element,
\* still in the DOM, had moved since the call.
C32_Witness ==
    /\ ev.op = "task"
    /\ ~ev.flipped
    /\ container # None
    /\ selection.op # "none"
    /\ IndexOf(rendered, selection.bound) # 0
    /\ pending_scroll = {"prog"}
    /\ loading = None

\* ceil(a / b) for b > 0 and any integer a.
CeilDiv(a, b) == -((-a) \div b)

\* The content height of the geometry compute_limit was asked about.
ContentHeight(g) == g.client_height - g.padding_top - g.padding_bottom

\* C33 as stated: compute_limit returns
\* ceil((client_height - padding_top - padding_bottom) * 3 / 74) when a
\* container is bound and 100 when none is, for every client height and
\* paddings.
C33_ComputeLimitCeil ==
    ev.op = "compute_limit" =>
        ev.result = IF ev.input.container = None THEN 100
                    ELSE CeilDiv(ContentHeight(ev.input.geom) * 3, 74)

\* C33 as amended: compute_limit returns that quotient when it is not
\* negative and 0 when it is, and 100 when no container is bound.
C33_ComputeLimitCeilOrZero ==
    ev.op = "compute_limit" =>
        ev.result = IF ev.input.container = None THEN 100
                    ELSE Max(0, CeilDiv(ContentHeight(ev.input.geom) * 3, 74))

\* A bound container of content height 25: 75 / 74 is rounded up to 2.
C33_Witness ==
    /\ ev.op = "compute_limit"
    /\ ev.input.container # None
    /\ ContentHeight(ev.input.geom) = 25
    /\ ev.input.geom.padding_top > 0
    /\ ev.result = 2

\* C34: whenever the number of displayed rows changes while the manager is
\* in Live mode with a bottom gap below 50, after_layout is eventually
\* invoked.
C34_AfterLayoutFollowsRows ==
    (ev.op = "rows" /\ ev.changed /\ ShouldAutoScroll)
        ~> (ev.op = "after_layout")

\* C35: in every reachable state a manager in Live mode stores no
\* continuation key; a key is stored only in Backward or Forward mode.
C35_LiveHasNoKey ==
    /\ mode = "Live" => last_continuation_key = None
    /\ last_continuation_key # None => mode \in {"Backward", "Forward"}

\* jump_to_live has just brought a manager that had paged backward, and
\* so held a key, back to Live.
C35_Witness ==
    /\ ev.op = "jump_to_live"
    /\ ev.mode_before = "Backward"
    /\ mode = "Live"
    /\ last_continuation_key = None

\* C36: as long as the manager is not destroyed, its room is the active
\* room of the notification manager exactly when its mode is Live.
C36_ActiveRoomIffLive ==
    ~destroyed => (active_room = RoomId <=> mode = "Live")

\* A Forward task has reached the newest messages and gone back to Live,
\* and the room is the active room again.
C36_Witness ==
    /\ ev.op = "task"
    /\ ev.flipped
    /\ ev.mode_before = "Forward"
    /\ ~destroyed
    /\ mode = "Live"
    /\ active_room = RoomId

C38_LimitAtLeastOne ==
    selection.limit >= 1

\* ------------------------------------------------ NotificationManager
MaxAdds == 2          \* messages one changeset adds
MaxUnread == 4        \* unread messages counted for one room
MaxChangesets == 3    \* changesets one room query delivers

CurrentUser == "me"
Users == {CurrentUser, "them"}

\* What a changeset adds: the user of each added message.
Adds == UNION {[1..n -> Users] : n \in 0..MaxAdds}

\* The manager's own state, which the notifier neither reads nor writes.
managerVars == <<mode, loading, last_continuation_key, current_limit,
                 current_direction, selection, metrics, last_scroll_top,
                 user_scrolling, initialized, bindVars, applied, messages,
                 store_size, rejects_left, viewVars, tasks, rendered, geom,
                 scrollVars, after_layout_pending, destroyed>>

\* changeset.adds() without the messages of the current user.
NewMessagesFromOthers(adds) == SelectSeq(adds, LAMBDA user : user # CurrentUser)

\* mark_as_read: the room's entry is removed from the counts.
MarkAsRead(room_id) == [unread_counts EXCEPT ![room_id] = 0]

\* set_active_room: the room is stored, and Some(room) is marked as read.
SetActiveRoom(room_id) ==
    /\ active_room' = room_id
    /\ unread_counts' = IF room_id # None THEN MarkAsRead(room_id) ELSE unread_counts
    /\ ev' = [op |-> "set_active_room", room |-> room_id]
    /\ UNCHANGED <<managerVars, room_queries>>

\* add_room_query: nothing for a room that has a query; a new query has
\* delivered no changeset.
AddRoomQuery(room_id) ==
    /\ room_queries[room_id] = <<>>
    /\ room_queries' = [room_queries EXCEPT ![room_id] = <<0>>]
    /\ ev' = [op |-> "add_room_query", room |-> room_id]
    /\ UNCHANGED <<managerVars, active_room, unread_counts>>

\* remove_room_query: the query and the room's count are dropped.
RemoveRoomQuery(room_id) ==
    /\ room_queries[room_id] # <<>>
    /\ room_queries' = [room_queries EXCEPT ![room_id] = <<>>]
    /\ unread_counts' = [unread_counts EXCEPT ![room_id] = 0]
    /\ ev' = [op |-> "remove_room_query", room |-> room_id]
    /\ UNCHANGED <<managerVars, active_room>>

RoomQueryChangeset_CountsActive(room_id, adds) ==
    LET count == room_queries[room_id][1] + 1
        new_messages_from_others == NewMessagesFromOthers(adds)
    IN  /\ room_queries[room_id] # <<>>
        /\ room_queries[room_id][1] < MaxChangesets
        /\ unread_counts[room_id] + Len(adds) <= MaxUnread
        /\ room_queries' = [room_queries EXCEPT ![room_id] = <<count>>]
        /\ unread_counts' =
              IF count = 1 THEN unread_counts
              ELSE IF new_messages_from_others = <<>> THEN unread_counts
              ELSE [unread_counts EXCEPT ![room_id] = @ + Len(new_messages_from_others)]
        /\ ev' = [op |-> "changeset", room |-> room_id, adds |-> adds]
        /\ UNCHANGED <<managerVars, active_room>>

\* The subscription callback of a room query: the first changeset is the
\* initial load and is skipped; later ones count the messages other users
\* added, unless the room is the active room.
RoomQueryChangeset(room_id, adds) ==
    LET count == room_queries[room_id][1] + 1
        new_messages_from_others == NewMessagesFromOthers(adds)
        is_active_room == active_room = room_id
    IN  /\ room_queries[room_id] # <<>>
        /\ room_queries[room_id][1] < MaxChangesets
        /\ unread_counts[room_id] + Len(adds) <= MaxUnread
        /\ room_queries' = [room_queries EXCEPT ![room_id] = <<count>>]
        /\ unread_counts' =
              IF count = 1 THEN unread_counts
              ELSE IF new_messages_from_others = <<>> THEN unread_counts
              ELSE IF is_active_room THEN unread_counts
              ELSE [unread_counts EXCEPT ![room_id] = @ + Len(new_messages_from_others)]
        /\ ev' = [op |-> "changeset", room |-> room_id, adds |-> adds]
        /\ UNCHANGED <<managerVars, active_room>>

NotifyNext ==
    \/ \E room_id \in Rooms \cup {None} : SetActiveRoom(room_id)
    \/ \E room_id \in Rooms : AddRoomQuery(room_id)
    \/ \E room_id \in Rooms : RemoveRoomQuery(room_id)
    \/ \E room_id \in Rooms, adds \in Adds : RoomQueryChangeset(room_id, adds)

NotifySpec == Init /\ [][NotifyNext]_vars

\* Messages of a changeset that the current user did not write.
FromOthers(adds) == Cardinality({i \in DOMAIN adds : adds[i] # CurrentUser})

\* C39: set_active_room(Some(r)) leaves r without an unread count; while r
\* stays the active room nothing increases r's count; a changeset for a room
\* that is not the active room adds the number of messages other users added
\* to that room's count, and adds nothing when it is the first changeset of
\* the room's query.
C39_UnreadCounts ==
    [][ /\ (ev'.op = "set_active_room" /\ ev'.room # None)
            => unread_counts'[ev'.room] = 0
        /\ \A r \in Rooms :
              (active_room = r /\ active_room' = r)
                  => unread_counts'[r] <= unread_counts[r]
        /\ (ev'.op = "changeset" /\ room_queries' # room_queries
                /\ ev'.room # active_room)
            => unread_counts'[ev'.room] =
                  unread_counts[ev'.room]
                  + (IF room_queries[ev'.room] = <<0>> THEN 0 ELSE FromOthers(ev'.adds))
      ]_vars

\* A later changeset of a room that is not the active one, with a message of
\* the current user and one of another user, has raised a count that was
\* raised before.
C39_Witness ==
    /\ ev.op = "changeset"
    /\ active_room # None
    /\ ev.room # active_room
    /\ room_queries[ev.room] = <<3>>
    /\ ev.adds = <<CurrentUser, "them">>
    /\ unread_counts[ev.room] = 3
    /\ unread_counts[active_room] = 0

====
